---- MODULE Spec2Model ----
(***************************************************************************)
(* Model of the text-to-sql data-lake query engine:                        *)
(*   app/src/models/s3_data_access.py  (class S3DataAccess)                *)
(*   app/src/routes/api.py             (routes config, available_dates,    *)
(*                                      query and the module's CONFIG)     *)
(*   app/src/main.py                   (CONFIG loaded from the secrets)    *)
(*   app/src/models/llm_provider.py    (get_provider)                      *)
(*                                                                         *)
(* Text is modelled as a sequence of chunks (short strings).  The chunk    *)
(* alphabets are chosen so that the substrings the code searches for       *)
(* ('select', 'where', ',', '=', '/', white space) occur only as whole     *)
(* chunks, which makes chunk-level search equal to character-level search. *)
(* An optional value (Python None or a value) is a sequence of length 0    *)
(* or 1.                                                                   *)
(***************************************************************************)
EXTENDS Integers, Sequences, FiniteSets, TLC

VARIABLES
    pc,          \* position of the running call: "idle", "load_*", "done_*",
                 \* and of the process once started: "serving", "q_*"
    store,       \* bucket contents seen by the running load, in listing order
    start_date,  \* get_data_for_date_range: argument start_date
    end_date,    \* get_data_for_date_range: argument end_date
    limit,       \* get_data_for_date_range: argument limit (None = <<>>)
    date_list,   \* local date_list
    dateIdx,     \* position of the outer for loop in date_list
    response,    \* local response: the objects of the current listing
    objIdx,      \* position of the inner for loop in response
    all_data,    \* local all_data: the frames appended so far
    file_count,  \* local file_count
    listed,      \* log of the prefixes passed to list_objects_v2
    fetched,     \* log of the keys passed to get_object
    raised,      \* the call whose exception the except clause caught, or "no"
    result,      \* the table returned by the finished call
    catInput,    \* get_available_date_range: the list_objects_v2 outcome
    catResult,   \* get_available_date_range: the returned pair (None = <<>>)
    http,        \* the reply of the route available_dates
    query,       \* execute_query: argument query
    df,          \* execute_query: argument df
    parsed,      \* execute_query: locals select_part, where_part, columns_str
    evaluated,   \* execute_query: the table operations done (copy, getitem, query)
    error,       \* execute_query: second component of the returned pair
    dfAfter,     \* execute_query: the caller's table df once the call is over
    schema,      \* get_schema_from_data: the returned description
    CONFIG,      \* api.py: the module's CONFIG
    mainCONFIG,  \* main.py: the module's CONFIG
    config_reply,\* config: the reply to the last POST /config
    request,     \* the /query or /available-dates request being handled, or the
                 \* last one handled
    seen,        \* api.py's CONFIG as that request read it
    reply,       \* its reply, None until it is sent
    calls,       \* the methods called for it so far, in call order
    route_df,    \* query: the local df
    sql_query,   \* query: the local sql_query
    executed,    \* query: the locals results, error
    bucketPosted \* whether a POST /config body has held the key bucket_name

vars == <<pc, store, start_date, end_date, limit, date_list, dateIdx, response,
          objIdx, all_data, file_count, listed, fetched, raised, result,
          catInput, catResult, http, query, df, parsed, evaluated, error,
          dfAfter, schema, CONFIG, mainCONFIG, config_reply, request, seen, reply,
          calls, route_df,
          sql_query, executed, bucketPosted>>

loadVars == <<store, start_date, end_date, limit, date_list, dateIdx, response,
              objIdx, all_data, file_count, listed, fetched>>
catVars == <<catInput, catResult, http>>
queryVars == <<query, df, parsed, evaluated, error, dfAfter>>
routeVars == <<CONFIG, mainCONFIG, config_reply, request, seen, reply, calls,
               route_df, sql_query, executed, bucketPosted>>
appVars == <<schema, routeVars>>
objVars == <<loadVars, raised, result, catVars, queryVars, schema>>

(***************************************************************************)
(* Bounds of the model.                                                    *)
(***************************************************************************)
WindowDays == 3     \* number of consecutive calendar days the bucket spans
MaxLimit == 2       \* largest file limit passed to a load
MaxKeys == 2        \* longest listing given to get_available_date_range
MaxQueryLen == 4    \* longest statement, in chunks
MaxRows == 2        \* most rows of a table handed to get_schema_from_data

None == <<>>
Some(v) == <<v>>

(***************************************************************************)
(* Generic sequence helpers.                                               *)
(***************************************************************************)
RECURSIVE SeqsUpTo(_, _)
SeqsUpTo(S, n) ==
    IF n = 0 THEN {<<>>}
    ELSE LET shorter == SeqsUpTo(S, n - 1)
         IN shorter \cup {Append(s, x) : s \in {t \in shorter : Len(t) = n - 1}, x \in S}

RECURSIVE Flatten(_)
Flatten(ss) == IF ss = <<>> THEN <<>> ELSE Head(ss) \o Flatten(Tail(ss))

IsPrefixOf(p, s) == Len(p) <= Len(s) /\ \A i \in 1..Len(p) : s[i] = p[i]

Contains(s, x) == \E i \in 1..Len(s) : s[i] = x

(***************************************************************************)
(* Calendar dates: datetime values at midnight, and timedelta(days=1).     *)
(***************************************************************************)
Date(y, m, d) == [year |-> y, month |-> m, day |-> d]

IsLeap(y) == (y % 4 = 0) /\ ((y % 100 # 0) \/ (y % 400 = 0))

DaysInMonth(y, m) ==
    IF m = 2 THEN (IF IsLeap(y) THEN 29 ELSE 28)
    ELSE IF m \in {4, 6, 9, 11} THEN 30 ELSE 31

\* datetime(year, month, day) accepts exactly these triples (it raises
\* ValueError on every other triple of integers that fit a C int)
ValidDate(y, m, d) ==
    /\ y \in 1..9999
    /\ m \in 1..12
    /\ d \in 1..DaysInMonth(y, m)

\* current_date += timedelta(days=1)
NextDay(dt) ==
    IF dt.day < DaysInMonth(dt.year, dt.month)
    THEN Date(dt.year, dt.month, dt.day + 1)
    ELSE IF dt.month < 12 THEN Date(dt.year, dt.month + 1, 1)
    ELSE Date(dt.year + 1, 1, 1)

\* datetime ordering: a <= b
DateLE(a, b) ==
    \/ a.year < b.year
    \/ a.year = b.year /\ a.month < b.month
    \/ a.year = b.year /\ a.month = b.month /\ a.day <= b.day

RECURSIVE DaysBeforeMonth(_, _)
DaysBeforeMonth(y, m) ==
    IF m = 1 THEN 0 ELSE DaysBeforeMonth(y, m - 1) + DaysInMonth(y, m - 1)

\* datetime.toordinal(): day number in the proleptic Gregorian calendar
Ordinal(dt) ==
    LET y == dt.year - 1
    IN 365 * y + (y \div 4) - (y \div 100) + (y \div 400)
       + DaysBeforeMonth(dt.year, dt.month) + dt.day

\* (e - s).days
DaysBetween(s, e) == Ordinal(e) - Ordinal(s)

\* the while loop building date_list, written with < in place of <=
RECURSIVE DateListExclusive(_, _)
DateListExclusive(s, e) ==
    IF DateLE(s, e) /\ s # e THEN <<s>> \o DateListExclusive(NextDay(s), e) ELSE <<>>

\* the while loop building date_list
RECURSIVE DateList(_, _)
DateList(s, e) ==
    IF DateLE(s, e) THEN <<s>> \o DateList(NextDay(s), e) ELSE <<>>

(***************************************************************************)
(* Text of object keys.  A key is the sequence of its '/'-separated        *)
(* segments (what key.split('/') returns); a segment is a sequence of      *)
(* chunks, "=" and each decimal digit being a chunk of its own.            *)
(***************************************************************************)
DigitChars == <<"0", "1", "2", "3", "4", "5", "6", "7", "8", "9">>

\* str(n) for n >= 0
RECURSIVE Digits(_)
Digits(n) ==
    IF n < 10 THEN <<DigitChars[n + 1]>>
    ELSE Digits(n \div 10) \o <<DigitChars[(n % 10) + 1]>>

\* format(n, "02d")
Pad2(n) == IF n < 10 THEN <<"0">> \o Digits(n) ELSE Digits(n)

base_path == <<"csv-data">>

\* f"{self.base_path}year={year}/month={month:02d}/day={day:02d}/"
Prefix(dt) ==
    << base_path,
       <<"year", "=">> \o Digits(dt.year),
       <<"month", "=">> \o Pad2(dt.month),
       <<"day", "=">> \o Pad2(dt.day),
       <<>> >>

\* string prefix test of the listing: every complete segment of the prefix is
\* equal, the unfinished last segment is a prefix of the key's segment
KeyStartsWith(key, prefix) ==
    /\ Len(key) >= Len(prefix)
    /\ \A i \in 1..(Len(prefix) - 1) : key[i] = prefix[i]
    /\ IsPrefixOf(prefix[Len(prefix)], key[Len(prefix)])

\* list_objects_v2(Prefix=prefix).get('Contents', [])
ListObjects(st, prefix) == SelectSeq(st, LAMBDA o : KeyStartsWith(o.key, prefix))

\* key.endswith('.csv.gz')
EndsWithCsvGz(key) ==
    LET seg == key[Len(key)]
    IN seg # <<>> /\ seg[Len(seg)] = ".csv.gz"

(***************************************************************************)
(* Tables (pandas DataFrame): ordered column names and rows of cells, a    *)
(* cell being None (null) or Some(value).                                  *)
(***************************************************************************)
EmptyFrame == [cols |-> <<>>, rows |-> <<>>]

ColIndex(cols, c) == CHOOSE k \in 1..Len(cols) : cols[k] = c

\* the columns of pd.concat: first appearance order over the frames
RECURSIVE UnionCols(_, _)
UnionCols(frames, acc) ==
    IF frames = <<>> THEN acc
    ELSE LET new == SelectSeq(Head(frames).cols, LAMBDA c : ~Contains(acc, c))
         IN UnionCols(Tail(frames), acc \o new)

\* one frame's rows laid out on the columns cols, null where it has no such column
Reindex(frame, cols) ==
    [r \in 1..Len(frame.rows) |->
        [j \in 1..Len(cols) |->
            IF Contains(frame.cols, cols[j])
            THEN frame.rows[r][ColIndex(frame.cols, cols[j])]
            ELSE None]]

\* a concatenation that keeps only the columns every frame has
ConcatInner(frames) ==
    LET cols == SelectSeq(Head(frames).cols,
                          LAMBDA c : \A i \in 1..Len(frames) : Contains(frames[i].cols, c))
    IN [cols |-> cols,
        rows |-> Flatten([i \in 1..Len(frames) |-> Reindex(frames[i], cols)])]

\* pd.concat(all_data, ignore_index=True)
Concat(frames) ==
    LET cols == UnionCols(frames, <<>>)
    IN [cols |-> cols,
        rows |-> Flatten([i \in 1..Len(frames) |-> Reindex(frames[i], cols)])]

(***************************************************************************)
(* The bucket read by a load: WindowDays consecutive day partitions from   *)
(* FirstDate on, each holding one of the DayLayouts.  An object is a key   *)
(* and a body; the body is None when fetching, decompressing or parsing it *)
(* raises, and Some(frame) when pd.read_csv returns frame.                 *)
(***************************************************************************)
FirstDate == Date(2024, 2, 28)

RECURSIVE DaysFrom(_, _)
DaysFrom(dt, n) == IF n = 0 THEN <<>> ELSE <<dt>> \o DaysFrom(NextDay(dt), n - 1)

WindowDates == DaysFrom(FirstDate, WindowDays)

FrameAB == [cols |-> <<"A", "B">>,
            rows |-> << <<Some(1), Some(2)>>, <<Some(3), None>> >>]
FrameBC == [cols |-> <<"B", "C">>,
            rows |-> << <<Some(5), Some(6)>> >>]

FileA == <<"a", ".csv.gz">>
FileB == <<"b", ".csv.gz">>
FileN == <<"notes", ".txt">>

File(name, body) == [name |-> name, body |-> body]

DayLayouts ==
    { <<>>,
      << File(FileA, Some(FrameAB)) >>,
      << File(FileA, None), File(FileB, Some(FrameBC)) >>,
      << File(FileA, Some(FrameAB)), File(FileB, None) >>,
      << File(FileA, Some(FrameBC)), File(FileB, Some(FrameAB)), File(FileN, None) >> }

\* the key under which a day's file is stored
PartitionKey(dt, name) ==
    << base_path,
       <<"year", "=">> \o Digits(dt.year),
       <<"month", "=">> \o Pad2(dt.month),
       <<"day", "=">> \o Pad2(dt.day),
       name >>

\* the bucket holding layout[i] on the i-th day, in listing (key) order
Bucket(layout) ==
    Flatten([i \in 1..Len(layout) |->
        [j \in 1..Len(layout[i]) |->
            [key  |-> PartitionKey(WindowDates[i], layout[i][j].name),
             body |-> layout[i][j].body]]])

Buckets == {Bucket(l) : l \in [1..WindowDays -> DayLayouts]}

WindowDateSet == {WindowDates[i] : i \in 1..WindowDays}

Limits == {None} \cup {Some(n) : n \in 0..MaxLimit}

\* Python truth value of the argument limit
Truthy(l) == l # None /\ l[1] # 0

\* limit and file_count >= limit
LimitReached(l, count) == Truthy(l) /\ count >= l[1]

(***************************************************************************)
(* S3DataAccess.get_data_for_date_range, one action per step of its loops. *)
(***************************************************************************)
GetDataStart ==
    /\ pc = "idle"
    /\ \E b \in Buckets, s \in WindowDateSet, e \in WindowDateSet, l \in Limits :
          /\ store' = b
          /\ start_date' = s
          /\ end_date' = e
          /\ limit' = l
          /\ date_list' = DateList(s, e)
    /\ all_data' = <<>>
    /\ file_count' = 0
    /\ dateIdx' = 1
    /\ pc' = "load_date"
    /\ UNCHANGED <<response, objIdx, listed, fetched, raised, result>>
    /\ UNCHANGED catVars
    /\ UNCHANGED queryVars
    /\ UNCHANGED appVars

\* lines 88-100: the next date of the outer loop is listed
ListDate ==
    /\ pc = "load_date"
    /\ dateIdx <= Len(date_list)
    /\ listed' = Append(listed, Prefix(date_list[dateIdx]))
    /\ response' = ListObjects(store, Prefix(date_list[dateIdx]))
    /\ objIdx' = 1
    /\ pc' = "load_obj"
    /\ UNCHANGED <<store, start_date, end_date, limit, date_list, dateIdx,
                   all_data, file_count, fetched, raised, result>>
    /\ UNCHANGED catVars
    /\ UNCHANGED queryVars
    /\ UNCHANGED appVars

\* lines 97-100 raising (storage failure), caught at lines 128-130
ListDateFails ==
    /\ pc = "load_date"
    /\ dateIdx <= Len(date_list)
    /\ listed' = Append(listed, Prefix(date_list[dateIdx]))
    /\ raised' = "list_objects_v2"
    /\ result' = EmptyFrame
    /\ pc' = "done_load"
    /\ UNCHANGED <<store, start_date, end_date, limit, date_list, dateIdx,
                   response, objIdx, all_data, file_count, fetched>>
    /\ UNCHANGED catVars
    /\ UNCHANGED queryVars
    /\ UNCHANGED appVars

\* lines 103-105: an object whose key does not end in .csv.gz is passed over
SkipObject ==
    /\ pc = "load_obj"
    /\ objIdx <= Len(response)
    /\ ~EndsWithCsvGz(response[objIdx].key)
    /\ objIdx' = objIdx + 1
    /\ UNCHANGED <<pc, store, start_date, end_date, limit, date_list, dateIdx,
                   response, all_data, file_count, listed, fetched, raised, result>>
    /\ UNCHANGED catVars
    /\ UNCHANGED queryVars
    /\ UNCHANGED appVars

\* lines 105-117: the object is fetched, parsed and appended; the inner loop
\* is left when the limit is reached
FetchObject ==
    /\ pc = "load_obj"
    /\ objIdx <= Len(response)
    /\ EndsWithCsvGz(response[objIdx].key)
    /\ response[objIdx].body # None
    /\ fetched' = Append(fetched, response[objIdx].key)
    /\ all_data' = Append(all_data, response[objIdx].body[1])
    /\ file_count' = file_count + 1
    /\ IF LimitReached(limit, file_count + 1)
       THEN pc' = "load_after" /\ objIdx' = objIdx
       ELSE pc' = "load_obj" /\ objIdx' = objIdx + 1
    /\ UNCHANGED <<store, start_date, end_date, limit, date_list, dateIdx,
                   response, listed, raised, result>>
    /\ UNCHANGED catVars
    /\ UNCHANGED queryVars
    /\ UNCHANGED appVars

\* lines 107-112 raising on this object, caught at lines 128-130
FetchObjectFails ==
    /\ pc = "load_obj"
    /\ objIdx <= Len(response)
    /\ EndsWithCsvGz(response[objIdx].key)
    /\ response[objIdx].body = None
    /\ fetched' = Append(fetched, response[objIdx].key)
    /\ raised' = "get_object"
    /\ result' = EmptyFrame
    /\ pc' = "done_load"
    /\ UNCHANGED <<store, start_date, end_date, limit, date_list, dateIdx,
                   response, objIdx, all_data, file_count, listed>>
    /\ UNCHANGED catVars
    /\ UNCHANGED queryVars
    /\ UNCHANGED appVars

\* the inner loop runs out of objects
EndOfListing ==
    /\ pc = "load_obj"
    /\ objIdx > Len(response)
    /\ pc' = "load_after"
    /\ UNCHANGED <<store, start_date, end_date, limit, date_list, dateIdx, response,
                   objIdx, all_data, file_count, listed, fetched, raised, result>>
    /\ UNCHANGED catVars
    /\ UNCHANGED queryVars
    /\ UNCHANGED appVars

\* lines 119-120: the outer loop is left when the limit is reached, else goes on
AfterListing ==
    /\ pc = "load_after"
    /\ IF LimitReached(limit, file_count)
       THEN pc' = "load_concat" /\ dateIdx' = dateIdx
       ELSE pc' = "load_date" /\ dateIdx' = dateIdx + 1
    /\ UNCHANGED <<store, start_date, end_date, limit, date_list, response,
                   objIdx, all_data, file_count, listed, fetched, raised, result>>
    /\ UNCHANGED catVars
    /\ UNCHANGED queryVars
    /\ UNCHANGED appVars

\* the outer loop runs out of dates
EndOfDates ==
    /\ pc = "load_date"
    /\ dateIdx > Len(date_list)
    /\ pc' = "load_concat"
    /\ UNCHANGED <<store, start_date, end_date, limit, date_list, dateIdx, response,
                   objIdx, all_data, file_count, listed, fetched, raised, result>>
    /\ UNCHANGED catVars
    /\ UNCHANGED queryVars
    /\ UNCHANGED appVars

\* lines 122-126
CombineFrames ==
    /\ pc = "load_concat"
    /\ result' = IF all_data = <<>> THEN EmptyFrame ELSE Concat(all_data)
    /\ pc' = "done_load"
    /\ UNCHANGED <<store, start_date, end_date, limit, date_list, dateIdx, response,
                   objIdx, all_data, file_count, listed, fetched, raised>>
    /\ UNCHANGED catVars
    /\ UNCHANGED queryVars
    /\ UNCHANGED appVars

(***************************************************************************)
(* S3DataAccess.get_available_date_range and the reply of the route        *)
(* available_dates built from what it returns.                             *)
(***************************************************************************)
\* text.split(sep): the runs of chunks between the occurrences of sep
RECURSIVE Split(_, _)
Split(text, sep) ==
    IF ~Contains(text, sep) THEN <<text>>
    ELSE LET k == CHOOSE i \in 1..Len(text) :
                      text[i] = sep /\ \A j \in 1..(i - 1) : text[j] # sep
         IN <<SubSeq(text, 1, k - 1)>> \o Split(SubSeq(text, k + 1, Len(text)), sep)

IsDigit(c) == \E v \in 1..10 : DigitChars[v] = c

RECURSIVE IntOfDigits(_)
IntOfDigits(ds) ==
    IF ds = <<>> THEN 0
    ELSE 10 * IntOfDigits(SubSeq(ds, 1, Len(ds) - 1))
         + (CHOOSE v \in 0..9 : DigitChars[v + 1] = ds[Len(ds)])

\* int(text): None stands for ValueError
ParseInt(text) ==
    IF text # <<>> /\ \A i \in 1..Len(text) : IsDigit(text[i])
    THEN Some(IntOfDigits(text))
    ELSE None

\* int(part.split('=')[1]): None stands for IndexError or ValueError
PartValue(part) ==
    LET pieces == Split(part, "=")
    IN IF Len(pieces) < 2 THEN None ELSE ParseInt(pieces[2])

\* lines 40-53: the date appended for one key, None when the key is passed over
ParseKey(key) ==
    IF Len(key) < 4 THEN None
    ELSE LET year == PartValue(key[2])
             month == PartValue(key[3])
             day == PartValue(key[4])
         IN IF year = None \/ month = None \/ day = None THEN None
            ELSE IF ~ValidDate(year[1], month[1], day[1]) THEN None
            ELSE Some(Date(year[1], month[1], day[1]))

\* min(dates), max(dates)
MinDate(dates) == CHOOSE d \in dates : \A x \in dates : DateLE(d, x)
MaxDate(dates) == CHOOSE d \in dates : \A x \in dates : DateLE(x, d)

\* the outcome of list_objects_v2(Prefix=base_path): it raises, or it returns
\* a response whose 'Contents' is absent (None) or a list of keys
Listing(raises, contents) == [raises |-> raises, Contents |-> contents]

\* lines 25-62: the returned pair
GetAvailableDateRange(resp) ==
    IF resp.raises THEN <<None, None>>
    ELSE IF resp.Contents = None THEN <<None, None>>
    ELSE LET keys == resp.Contents[1]
             dates == {ParseKey(keys[i])[1] :
                          i \in {j \in 1..Len(keys) : ParseKey(keys[j]) # None}}
         IN IF dates = {} THEN <<None, None>>
            ELSE <<Some(MinDate(dates)), Some(MaxDate(dates))>>

\* strftime('%Y-%m-%d')
FormatDate(dt) == Digits(dt.year) \o <<"-">> \o Pad2(dt.month) \o <<"-">> \o Pad2(dt.day)

\* api.py lines 69-77: the reply built from the returned pair
AvailableDatesReply(ret) ==
    IF ret[1] = None \/ ret[2] = None
    THEN [status |-> 404, error |-> "No data available in S3 bucket",
          start_date |-> <<>>, end_date |-> <<>>]
    ELSE [status |-> 200, error |-> "",
          start_date |-> FormatDate(ret[1][1]), end_date |-> FormatDate(ret[2][1])]

Seg(name, digits) == <<name, "=">> \o digits
CatalogKeys ==
    { << base_path, Seg("year", Digits(2024)), Seg("month", Pad2(2)), Seg("day", Pad2(28)), FileA >>,
      << base_path, Seg("year", Digits(2024)), Seg("month", Digits(3)), Seg("day", Digits(1)), FileB >>,
      << base_path, Seg("year", Digits(2023)), Seg("month", Pad2(12)), Seg("day", Pad2(31)), <<>> >>,
      << base_path, <<"readme", ".txt">> >>,
      << base_path, Seg("year", Digits(2024)), Seg("month", <<"x">>), Seg("day", Pad2(1)), FileA >>,
      << base_path, <<"year">>, Seg("month", Pad2(1)), Seg("day", Pad2(1)), FileA >>,
      << base_path, Seg("year", Digits(2024)), Seg("month", Digits(13)), Seg("day", Pad2(1)), FileA >>,
      << base_path, Seg("year", Digits(2023)), Seg("month", Pad2(2)), Seg("day", Pad2(29)), FileA >>,
      << base_path, Seg("batch", Digits(2020)), Seg("part", Pad2(1)), Seg("shard", Pad2(1)), FileA >> }

CatalogListings ==
    {Listing(TRUE, None), Listing(FALSE, None)}
    \cup {Listing(FALSE, Some(ks)) : ks \in SeqsUpTo(CatalogKeys, MaxKeys) \ {<<>>}}

AvailableDates ==
    /\ pc = "idle"
    /\ \E resp \in CatalogListings :
          /\ catInput' = Some(resp)
          /\ catResult' = Some(GetAvailableDateRange(resp))
          /\ http' = Some(AvailableDatesReply(GetAvailableDateRange(resp)))
    /\ pc' = "done_dates"
    /\ UNCHANGED loadVars
    /\ UNCHANGED <<raised, result>>
    /\ UNCHANGED queryVars
    /\ UNCHANGED appVars

(***************************************************************************)
(* S3DataAccess.execute_query.  A statement is a sequence of chunks of     *)
(* QueryChunks.  Only " FROM t" starts with white space; strip() cuts it   *)
(* to "FROM t".  DataFrame.query is modelled on the texts that statements  *)
(* of at most five chunks produce: one comparison chunk ("a > 1", "B > 7") *)
(* between white space filters the rows, every other text makes it raise.  *)
(***************************************************************************)
QueryChunks ==
    {"SELECT", "Where", " ", ",", "*", "a", "B", " FROM t", "DROP TABLE x", "a > 1",
     "B > 7"}

\* str.lower() of one chunk
LowerChunk(c) ==
    CASE c = "SELECT" -> "select"
      [] c = "Where" -> "where"
      [] c = "B" -> "b"
      [] c = " FROM t" -> " from t"
      [] c = "FROM t" -> "from t"
      [] c = "DROP TABLE x" -> "drop table x"
      [] c = "B > 7" -> "b > 7"
      [] OTHER -> c

\* str.lower()
Lower(text) == [i \in 1..Len(text) |-> LowerChunk(text[i])]

\* a chunk without its leading white space
LStripChunk(c) ==
    CASE c = " FROM t" -> "FROM t"
      [] c = " from t" -> "from t"
      [] OTHER -> c

RECURSIVE LStrip(_)
LStrip(text) ==
    IF text = <<>> THEN <<>>
    ELSE IF Head(text) = " " THEN LStrip(Tail(text))
    ELSE <<LStripChunk(Head(text))>> \o Tail(text)

RECURSIVE RStrip(_)
RStrip(text) ==
    IF text = <<>> THEN <<>>
    ELSE IF text[Len(text)] = " " THEN RStrip(SubSeq(text, 1, Len(text) - 1))
    ELSE text

\* str.strip()
Strip(text) == RStrip(LStrip(text))

\* text.replace(chunk, '')
Remove(text, chunk) == SelectSeq(text, LAMBDA c : c # chunk)

\* a test that finds 'select' anywhere in the statement
ContainsSelect(stmt) == Contains(Lower(stmt), "select")

\* line 189: query.lower().startswith('select')
StartsWithSelect(stmt) == stmt # <<>> /\ Lower(stmt)[1] = "select"

\* the error strings returned as second component
NoError == None
Failure(kind, names) == Some([kind |-> kind, names |-> names])
NotASelect == Failure("Query must start with SELECT", <<>>)

\* [c.strip() for c in columns_str.split(',')]
ColumnList(columns_str) ==
    LET pieces == Split(columns_str, ",")
    IN [i \in 1..Len(pieces) |-> Strip(pieces[i])]

RECURSIVE Dedup(_)
Dedup(names) ==
    IF names = <<>> THEN <<>>
    ELSE LET rest == Dedup(SubSeq(names, 1, Len(names) - 1))
             last == names[Len(names)]
         IN IF Contains(rest, last) THEN rest ELSE Append(rest, last)

\* the names a KeyError of df[columns] lists: all of them when none is a
\* column, else the missing ones
MissingNames(t, columns) ==
    IF \A i \in 1..Len(columns) : ~Contains(t.cols, columns[i])
    THEN columns
    ELSE Dedup(SelectSeq(columns, LAMBDA c : ~Contains(t.cols, c)))

\* df[columns] when every name is a column
Project(t, columns) ==
    [cols |-> columns,
     rows |-> [r \in 1..Len(t.rows) |->
                  [j \in 1..Len(columns) |-> t.rows[r][ColIndex(t.cols, columns[j])]]]]

\* lines 199-203 / 212-216: the table selected and the error raised, if any
SelectColumns(t, columns_str) ==
    IF columns_str = <<"*">>
    THEN [table |-> t, error |-> NoError, did |-> "copy"]
    ELSE LET columns == ColumnList(columns_str)
         IN IF \A i \in 1..Len(columns) : Contains(t.cols, columns[i])
            THEN [table |-> Project(t, columns), error |-> NoError, did |-> "getitem"]
            ELSE [table |-> EmptyFrame,
                  error |-> Failure("Error executing query: KeyError", MissingNames(t, columns)),
                  did |-> "getitem"]

\* the comparison a filter chunk writes: its column and its bound
Comparison(chunk) ==
    CASE chunk = "a > 1" -> Some([column |-> <<"a">>, bound |-> 1])
      [] chunk = "b > 7" -> Some([column |-> <<"b">>, bound |-> 7])
      [] chunk = "B > 7" -> Some([column |-> <<"B">>, bound |-> 7])
      [] OTHER -> None

\* the rows whose cell in the column is not null and above the bound
RowsAbove(t, column, bound) ==
    SelectSeq(t.rows, LAMBDA row : LET cell == row[ColIndex(t.cols, column)]
                                   IN cell # None /\ cell[1] > bound)

\* result.query(where_part)
QueryRows(t, where_part) ==
    LET expr == Strip(where_part)
    IN IF Len(expr) = 1 /\ Comparison(expr[1]) # None
       THEN LET cmp == Comparison(expr[1])[1]
            IN IF Contains(t.cols, cmp.column)
               THEN [table |-> [cols |-> t.cols, rows |-> RowsAbove(t, cmp.column, cmp.bound)],
                     error |-> NoError]
               ELSE [table |-> EmptyFrame,
                     error |-> Failure("Error executing query: UndefinedVariableError",
                                       <<cmp.column>>)]
       ELSE [table |-> EmptyFrame,
             error |-> Failure("Error executing query: query", <<>>)]

\* lines 183-221: the returned pair, the locals and the table operations done
ExecuteQuery(t, text) ==
    LET stmt == Strip(text)
        lowered == Lower(stmt)
    IN IF ~StartsWithSelect(stmt)
       THEN [result |-> EmptyFrame, error |-> NotASelect, parsed |-> None,
             evaluated |-> <<>>]
       ELSE IF Contains(lowered, "where")
       THEN LET select_part == Split(lowered, "where")[1]
                where_part == Split(lowered, "where")[2]
                columns_str == Strip(Remove(select_part, "select"))
                sel == SelectColumns(t, columns_str)
                loc == [select_part |-> select_part, where_part |-> Some(where_part),
                        columns_str |-> columns_str]
            IN IF sel.error # NoError
               THEN [result |-> EmptyFrame, error |-> sel.error, parsed |-> Some(loc),
                     evaluated |-> <<sel.did>>]
               ELSE LET out == QueryRows(sel.table, where_part)
                    IN [result |-> out.table, error |-> out.error, parsed |-> Some(loc),
                        evaluated |-> <<sel.did, "query">>]
       ELSE LET columns_str == Strip(Remove(lowered, "select"))
                sel == SelectColumns(t, columns_str)
                loc == [select_part |-> lowered, where_part |-> None,
                        columns_str |-> columns_str]
            IN [result |-> sel.table, error |-> sel.error, parsed |-> Some(loc),
                evaluated |-> <<sel.did>>]

\* the input table if the selection and the filter were done in place
InputAfterInPlace(t, text) == ExecuteQuery(t, text).result

\* the input table after the call: df.copy(), df[columns] and result.query()
\* each build a new table, no statement of lines 183-221 writes to df
InputAfter(t, text) == t

Statements == SeqsUpTo(QueryChunks, MaxQueryLen)

TableAB == [cols |-> << <<"a">>, <<"B">> >>,
            rows |-> << <<Some(5), Some(7)>>, <<Some(1), Some(8)>>, <<Some(9), None>> >>]
TableLower == [cols |-> << <<"b">>, <<"a">> >>,
               rows |-> << <<Some(3), Some(0)>>, <<Some(4), Some(6)>> >>]
QueryTables == {TableAB, TableLower}

ExecuteQueryCall ==
    /\ pc = "idle"
    /\ \E t \in QueryTables, text \in Statements :
          LET out == ExecuteQuery(t, text)
          IN /\ df' = t
             /\ query' = text
             /\ result' = out.result
             /\ error' = out.error
             /\ parsed' = out.parsed
             /\ evaluated' = out.evaluated
             /\ dfAfter' = InputAfter(t, text)
    /\ pc' = "done_query"
    /\ UNCHANGED loadVars
    /\ UNCHANGED raised
    /\ UNCHANGED catVars
    /\ UNCHANGED appVars

(***************************************************************************)
(* S3DataAccess.get_schema_from_data.  The description is the list of its  *)
(* "- column (dtype): Example value: sample" lines, or the sentinel text.  *)
(***************************************************************************)
\* df.empty
IsEmpty(t) == Len(t.cols) = 0 \/ Len(t.rows) = 0

\* df[column].isna().all()
AllNull(t, j) == \A r \in 1..Len(t.rows) : t.rows[r][j] = None

\* df[column].dtype of a column of integers: float64 once a cell is null
Dtype(t, j) ==
    IF \E r \in 1..Len(t.rows) : t.rows[r][j] = None THEN "float64" ELSE "int64"

\* the example printed on a line: the text "NULL", or a cell (None prints nan)
NullMarker == [marker |-> "NULL", cell |-> None]
Example(cell) == [marker |-> "", cell |-> cell]

NoSchema == [sentinel |-> "No data available to generate schema.", lines |-> <<>>]

\* lines 142-153
GetSchemaFromData(t) ==
    IF IsEmpty(t) THEN NoSchema
    ELSE [sentinel |-> "",
          lines |-> [j \in 1..Len(t.cols) |->
                       [column |-> t.cols[j],
                        dtype  |-> Dtype(t, j),
                        sample |-> IF ~AllNull(t, j) THEN Example(t.rows[1][j])
                                   ELSE NullMarker]]]

SchemaCells == {None, Some(1), Some(2)}
SchemaColumns == <<"x", "y">>
SchemaTables ==
    {EmptyFrame}
    \cup {[cols |-> SchemaColumns, rows |-> rows] :
             rows \in SeqsUpTo({<<c1, c2>> : c1 \in SchemaCells, c2 \in SchemaCells}, MaxRows)}

GetSchemaFromDataCall ==
    /\ pc = "idle"
    /\ \E t \in SchemaTables :
          /\ df' = t
          /\ schema' = Some(GetSchemaFromData(t))
    /\ pc' = "done_schema"
    /\ UNCHANGED loadVars
    /\ UNCHANGED <<raised, result>>
    /\ UNCHANGED catVars
    /\ UNCHANGED <<query, parsed, evaluated, error, dfAfter>>
    /\ UNCHANGED routeVars

(***************************************************************************)
(* The process: main.py loads the secrets into its own CONFIG, then the    *)
(* routes of api.py are served.  api.py keeps a CONFIG of its own, written  *)
(* by POST /config only: a POST /config may run between any two steps of a *)
(* /query request, while /query and /available-dates requests, which write *)
(* nothing they share, are taken one after the other.  An API key is       *)
(* modelled by its presence: api_keys is the set of provider names that    *)
(* have a non-empty key.                                                   *)
(***************************************************************************)
\* api.py lines 21-26 and main.py lines 22-27
InitialCONFIG ==
    [default_provider |-> "bedrock",
     default_model    |-> "anthropic.claude-3-sonnet-20240229-v1:0",
     bucket_name      |-> None,
     api_keys         |-> {}]

\* what get_secrets returns: the bucket name if present, the keys present
Secrets(bucket, keys) == [S3_BUCKET_NAME |-> bucket, keys |-> keys]
SecretSets ==
    { Secrets(None, {}),
      Secrets(Some("data"), {"OPENAI_API_KEY"}),
      Secrets(None, {"OPENAI_API_KEY", "GEMINI_API_KEY"}) }

\* main.py lines 59-65
LoadSecrets(cfg, secrets) ==
    [cfg EXCEPT
       !.bucket_name = IF secrets.S3_BUCKET_NAME # None
                       THEN secrets.S3_BUCKET_NAME ELSE @,
       !.api_keys = @ \cup (IF "OPENAI_API_KEY" \in secrets.keys THEN {"openai"} ELSE {})
                      \cup (IF "GEMINI_API_KEY" \in secrets.keys THEN {"gemini"} ELSE {})]

\* provider_name.lower()
LowerName(name) == IF name = "OpenAI" THEN "openai" ELSE name

\* the bucket name a route works with, read from main.py's CONFIG
BucketNameOfMain(api, main) == main.bucket_name

\* bucket_name = CONFIG.get('bucket_name'), CONFIG being api.py's own
BucketName(api, main) == api.bucket_name

\* not bucket_name
NoBucket(b) == b = None \/ b[1] = ""

\* the JSON body of POST /config: each key absent (None) or present
ConfigBody(provider, model, bucket, keys) ==
    [provider |-> provider, model |-> model, bucket_name |-> bucket, api_keys |-> keys]
ConfigBodies ==
    { ConfigBody(None, None, None, None),
      ConfigBody(None, None, Some(Some("data")), None),
      ConfigBody(None, None, Some(Some("bare")), None),
      ConfigBody(None, None, Some(None), None),
      ConfigBody(Some("OpenAI"), Some("gpt-4"), None, None),
      ConfigBody(None, None, None, Some({"openai", "cohere"})) }

\* api.py lines 37-48
UpdateConfig(cfg, data) ==
    [default_provider |-> IF data.provider # None THEN data.provider[1]
                          ELSE cfg.default_provider,
     default_model    |-> IF data.model # None THEN data.model[1]
                          ELSE cfg.default_model,
     bucket_name      |-> IF data.bucket_name # None THEN data.bucket_name[1]
                          ELSE cfg.bucket_name,
     api_keys         |-> IF data.api_keys # None THEN cfg.api_keys \cup data.api_keys[1]
                          ELSE cfg.api_keys]

\* a reply: HTTP status, the 'error' of its body if it has one, else its body
Reply(status, err, body) == [status |-> status, error |-> err, body |-> body]
RouteError(status, text) == Reply(status, Failure(text, <<>>), None)
NotConfigured == RouteError(400, "S3 bucket not configured")
\* Flask's reply when the handler raises
InternalError == RouteError(500, "Internal Server Error")

\* the buckets of the storage service, by name
DataLayout == [i \in 1..WindowDays |->
                 IF i = 1 THEN << File(FileA, Some(TableAB)), File(FileN, None) >>
                 ELSE <<>>]
BareLayout == [i \in 1..WindowDays |-> <<>>]
RouteStorage(name) ==
    IF name = "data" THEN Bucket(DataLayout) ELSE Bucket(BareLayout)

\* get_data_for_date_range without limit, as one step: fails tells whether a
\* storage call raises
CsvObjects(st, dates) ==
    Flatten([i \in 1..Len(dates) |->
               SelectSeq(ListObjects(st, Prefix(dates[i])),
                         LAMBDA o : EndsWithCsvGz(o.key))])
GetDataForDateRange(st, s, e, fails) ==
    LET objs == CsvObjects(st, DateList(s, e))
    IN IF fails \/ \E i \in 1..Len(objs) : objs[i].body = None THEN EmptyFrame
       ELSE IF objs = <<>> THEN EmptyFrame
       ELSE Concat([i \in 1..Len(objs) |-> objs[i].body[1]])

\* datetime.strptime(text, '%Y-%m-%d'): None stands for ValueError
ParseDate(text) ==
    LET parts == Split(text, "-")
    IN IF Len(parts) # 3 THEN None
       ELSE LET year == ParseInt(parts[1])
                month == ParseInt(parts[2])
                day == ParseInt(parts[3])
            IN IF year = None \/ month = None \/ day = None THEN None
               ELSE IF Len(parts[1]) # 4 \/ Len(parts[2]) > 2 \/ Len(parts[3]) > 2 THEN None
               ELSE IF ~ValidDate(year[1], month[1], day[1]) THEN None
               ELSE Some(Date(year[1], month[1], day[1]))

\* datetime.now() and end_date - pd.Timedelta(days=30)
Now == NextDay(NextDay(FirstDate))
DefaultWindow == 30
PrevDay(dt) ==
    IF dt.day > 1 THEN Date(dt.year, dt.month, dt.day - 1)
    ELSE IF dt.month > 1 THEN Date(dt.year, dt.month - 1, DaysInMonth(dt.year, dt.month - 1))
    ELSE Date(dt.year - 1, 12, 31)
RECURSIVE DaysBefore(_, _)
DaysBefore(dt, n) == IF n = 0 THEN dt ELSE DaysBefore(PrevDay(dt), n - 1)

\* the JSON body of POST /query: provider and the two dates absent (None) or
\* present; dates are texts, one chunk per character
QueryRequest(question, provider, dates) ==
    [route |-> "query", question |-> question, provider |-> provider, dates |-> dates]
AvailableDatesRequest == [route |-> "available-dates", question |-> FALSE,
                          provider |-> None, dates |-> None]

FirstText == FormatDate(FirstDate)
LastText == FormatDate(WindowDates[WindowDays])
SlashText == <<"2", "8", "/", "0", "2", "/", "2", "0", "2", "4">>
DateInputs ==
    { None, Some(<<FirstText, FirstText>>), Some(<<FirstText, LastText>>),
      Some(<<LastText, FirstText>>), Some(<<SlashText, FirstText>>) }
ProviderInputs == {None, Some("OpenAI"), Some("cohere")}
QueryRequests ==
    {QueryRequest(FALSE, None, None)}
    \cup {QueryRequest(TRUE, p, d) : p \in ProviderInputs, d \in DateInputs}

\* provider_name = data.get('provider', CONFIG['default_provider'])
ProviderName(r, cfg) == IF r.provider # None THEN r.provider[1] ELSE cfg.default_provider

\* api.py lines 85-113: the reply that ends the request before any table is
\* loaded, None if the request goes on
Validate(r, cfg, main) ==
    IF ~r.question THEN Some(RouteError(400, "Question is required"))
    ELSE IF NoBucket(BucketName(cfg, main)) THEN Some(NotConfigured)
    ELSE IF r.dates # None
            /\ (ParseDate(r.dates[1][1]) = None \/ ParseDate(r.dates[1][2]) = None)
    THEN Some(RouteError(400, "Invalid date format. Use YYYY-MM-DD"))
    ELSE IF LowerName(ProviderName(r, cfg)) # "bedrock"
            /\ LowerName(ProviderName(r, cfg)) \notin cfg.api_keys
    THEN Some(Reply(400, Failure("API key not configured for",
                                 << <<ProviderName(r, cfg)>> >>), None))
    ELSE None

\* api.py lines 98-104: start_date, end_date of a request that passed Validate
Window(r) ==
    IF r.dates # None
    THEN <<ParseDate(r.dates[1][1])[1], ParseDate(r.dates[1][2])[1]>>
    ELSE <<DaysBefore(Now, DefaultWindow), Now>>

\* the table a request works on, were the table of the request before kept
RequestTableKept(previous, loaded) == IF IsEmpty(previous) THEN loaded ELSE previous

\* api.py line 119: df is the table just loaded
RequestTable(previous, loaded) == loaded

\* llm_provider.py lines 329-341: get_provider raises ValueError on other names
SupportedProviders == {"bedrock", "openai", "gemini"}

\* what generate_sql returns; None stands for the provider call raising
GeneratedStatements ==
    { <<"SELECT", "*">>, <<"SELECT", " ", "a">>, <<"SELECT", " ", "B">>,
      <<"SELECT", "*", "Where", "a > 1">>, <<"DROP TABLE x">> }
GenerateOutcomes == {None} \cup {Some(s) : s \in GeneratedStatements}

\* 'if error:' taken as never true
ExecFailedNever(err) == FALSE

\* api.py line 142: if error
ExecFailed(err) == err # NoError

\* main.py lines 58-69: the secrets are loaded, then the routes are registered
Startup ==
    /\ pc = "idle"
    /\ \E secrets \in SecretSets : mainCONFIG' = LoadSecrets(mainCONFIG, secrets)
    /\ pc' = "serving"
    /\ UNCHANGED <<CONFIG, config_reply, request, seen, reply, calls, route_df,
                   sql_query, executed, bucketPosted>>
    /\ UNCHANGED objVars

\* api.py lines 28-50: POST /config, between any two steps of a request
ConfigPost ==
    /\ pc \in {"serving", "q_load", "q_generate", "q_execute", "q_explain"}
    /\ \E data \in ConfigBodies :
          /\ CONFIG' = UpdateConfig(CONFIG, data)
          /\ config_reply' = Some(Reply(200, NoError, Some(UpdateConfig(CONFIG, data))))
          /\ bucketPosted' = (bucketPosted \/ data.bucket_name # None)
    /\ UNCHANGED <<pc, mainCONFIG, request, seen, reply, calls, route_df, sql_query,
                   executed>>
    /\ UNCHANGED objVars

\* api.py lines 57-77: GET /available-dates; raises tells whether the listing
\* raises
AvailableDatesRoute ==
    /\ pc = "serving"
    /\ request' = Some(AvailableDatesRequest)
    /\ seen' = Some(CONFIG)
    /\ IF NoBucket(BucketName(CONFIG, mainCONFIG))
       THEN /\ reply' = Some(NotConfigured)
            /\ calls' = <<>>
       ELSE \E raises \in BOOLEAN :
              LET keys == [i \in 1..Len(RouteStorage(BucketName(CONFIG, mainCONFIG)[1])) |->
                             RouteStorage(BucketName(CONFIG, mainCONFIG)[1])[i].key]
                  resp == Listing(raises, IF keys = <<>> THEN None ELSE Some(keys))
                  ret == AvailableDatesReply(GetAvailableDateRange(resp))
              IN /\ reply' = Some(IF ret.status = 200
                                  THEN Reply(200, NoError, Some(<<ret.start_date, ret.end_date>>))
                                  ELSE RouteError(ret.status, ret.error))
                 /\ calls' = <<"get_available_date_range">>
    /\ UNCHANGED <<pc, CONFIG, mainCONFIG, config_reply, route_df, sql_query, executed,
                   bucketPosted>>
    /\ UNCHANGED objVars

\* api.py lines 79-116: POST /query up to the construction of S3DataAccess
QueryReceive ==
    /\ pc = "serving"
    /\ \E r \in QueryRequests :
          /\ request' = Some(r)
          /\ reply' = Validate(r, CONFIG, mainCONFIG)
          /\ pc' = IF reply' = None THEN "q_load" ELSE "serving"
    /\ seen' = Some(CONFIG)
    /\ calls' = <<>>
    /\ sql_query' = None
    /\ executed' = None
    /\ UNCHANGED <<CONFIG, mainCONFIG, config_reply, route_df, bucketPosted>>
    /\ UNCHANGED objVars

\* api.py lines 119-122
QueryLoad ==
    /\ pc = "q_load"
    /\ \E fails \in BOOLEAN :
          LET w == Window(request[1])
              loaded == GetDataForDateRange(RouteStorage(BucketName(seen[1], mainCONFIG)[1]),
                                            w[1], w[2], fails)
              table == RequestTable(route_df, loaded)
          IN /\ route_df' = table
             /\ IF IsEmpty(table)
                THEN /\ reply' = Some(RouteError(404, "No data available for the specified date range"))
                     /\ pc' = "serving"
                ELSE /\ reply' = None
                     /\ pc' = "q_generate"
    /\ calls' = Append(calls, "get_data_for_date_range")
    /\ UNCHANGED <<CONFIG, mainCONFIG, config_reply, request, seen, sql_query, executed,
                   bucketPosted>>
    /\ UNCHANGED objVars

\* api.py lines 125-137
QueryGenerate ==
    /\ pc = "q_generate"
    /\ IF LowerName(ProviderName(request[1], seen[1])) \notin SupportedProviders
       THEN /\ reply' = Some(Reply(400, Failure("Unsupported provider:",
                                 << <<ProviderName(request[1], seen[1])>> >>), None))
            /\ calls' = calls \o <<"get_schema_from_data", "get_sample_data", "get_provider">>
            /\ pc' = "serving"
            /\ UNCHANGED sql_query
       ELSE /\ calls' = calls \o <<"get_schema_from_data", "get_sample_data", "get_provider",
                                   "generate_sql">>
            /\ \E out \in GenerateOutcomes :
                  IF out = None
                  THEN /\ reply' = Some(InternalError)
                       /\ pc' = "serving"
                       /\ UNCHANGED sql_query
                  ELSE /\ reply' = None
                       /\ pc' = "q_execute"
                       /\ sql_query' = out
    /\ UNCHANGED <<CONFIG, mainCONFIG, config_reply, request, seen, route_df, executed,
                   bucketPosted>>
    /\ UNCHANGED objVars

\* api.py lines 140-146
QueryExecute ==
    /\ pc = "q_execute"
    /\ LET out == ExecuteQuery(route_df, sql_query[1])
       IN /\ executed' = Some([results |-> out.result, error |-> out.error])
          /\ IF ExecFailed(out.error)
             THEN /\ reply' = Some(Reply(400, out.error, None))
                  /\ pc' = "serving"
             ELSE /\ reply' = None
                  /\ pc' = "q_explain"
    /\ calls' = Append(calls, "execute_query")
    /\ UNCHANGED <<CONFIG, mainCONFIG, config_reply, request, seen, route_df, sql_query,
                   bucketPosted>>
    /\ UNCHANGED objVars

\* api.py lines 149-156; raises tells whether the provider call raises
QueryExplain ==
    /\ pc = "q_explain"
    /\ \E raises \in BOOLEAN :
          reply' = Some(IF raises THEN InternalError
                        ELSE Reply(200, NoError,
                                   Some([sql_query |-> sql_query[1],
                                         results |-> executed[1].results])))
    /\ calls' = Append(calls, "explain_results")
    /\ pc' = "serving"
    /\ UNCHANGED <<CONFIG, mainCONFIG, config_reply, request, seen, route_df, sql_query,
                   executed, bucketPosted>>
    /\ UNCHANGED objVars

Init ==
    /\ pc = "idle"
    /\ store = <<>>
    /\ start_date = FirstDate
    /\ end_date = FirstDate
    /\ limit = None
    /\ date_list = <<>>
    /\ dateIdx = 0
    /\ response = <<>>
    /\ objIdx = 0
    /\ all_data = <<>>
    /\ file_count = 0
    /\ listed = <<>>
    /\ fetched = <<>>
    /\ raised = "no"
    /\ result = EmptyFrame
    /\ catInput = None
    /\ catResult = None
    /\ http = None
    /\ query = <<>>
    /\ df = EmptyFrame
    /\ parsed = None
    /\ evaluated = <<>>
    /\ error = None
    /\ dfAfter = EmptyFrame
    /\ schema = None
    /\ CONFIG = InitialCONFIG
    /\ mainCONFIG = InitialCONFIG
    /\ config_reply = None
    /\ request = None
    /\ seen = None
    /\ reply = None
    /\ calls = <<>>
    /\ route_df = EmptyFrame
    /\ sql_query = None
    /\ executed = None
    /\ bucketPosted = FALSE

Next ==
    \/ GetDataStart
    \/ ListDate
    \/ ListDateFails
    \/ SkipObject
    \/ FetchObject
    \/ FetchObjectFails
    \/ EndOfListing
    \/ AfterListing
    \/ EndOfDates
    \/ CombineFrames
    \/ AvailableDates
    \/ ExecuteQueryCall
    \/ GetSchemaFromDataCall
    \/ Startup
    \/ ConfigPost
    \/ AvailableDatesRoute
    \/ QueryReceive
    \/ QueryLoad
    \/ QueryGenerate
    \/ QueryExecute
    \/ QueryExplain

Spec == Init /\ [][Next]_vars

(***************************************************************************)
(* Properties of get_data_for_date_range.                                  *)
(***************************************************************************)
LoadRunning == pc \in {"load_date", "load_obj", "load_after", "load_concat"}
LoadStarted == LoadRunning \/ pc = "done_load"

\* the stored objects with the .csv.gz suffix whose partition date lies in
\* [start_date, end_date], in listing order
InRange(o) ==
    \E i \in 1..WindowDays :
        /\ DateLE(start_date, WindowDates[i])
        /\ DateLE(WindowDates[i], end_date)
        /\ \E n \in {FileA, FileB, FileN} : o.key = PartitionKey(WindowDates[i], n)
MatchingObjects == SelectSeq(store, LAMBDA o : EndsWithCsvGz(o.key) /\ InRange(o))
ReadableMatching == SelectSeq(MatchingObjects, LAMBDA o : o.body # None)
FramesOf(objs) == [i \in 1..Len(objs) |-> objs[i].body[1]]

RECURSIVE RowsBefore(_, _)
RowsBefore(frames, f) ==
    IF f <= 1 THEN 0 ELSE RowsBefore(frames, f - 1) + Len(frames[f - 1].rows)

PositionInStore(key) == CHOOSE k \in 1..Len(store) : store[k].key = key

\* C1: when one matching file of the range cannot be fetched, decompressed or
\* parsed, the load without a limit returns the rows of every other matching
\* file (the failing file alone is skipped).
C1_FailingFileSkipped ==
    ( /\ pc = "done_load"
      /\ limit = None
      /\ raised # "list_objects_v2"
      /\ Len(MatchingObjects) = Len(ReadableMatching) + 1 )
    => /\ Len(result.rows) = RowsBefore(FramesOf(ReadableMatching), Len(ReadableMatching) + 1)
       /\ \A f \in 1..Len(ReadableMatching) :
             \A c \in 1..Len(ReadableMatching[f].body[1].cols) :
                 Contains(result.cols, ReadableMatching[f].body[1].cols[c])

\* C2: with a file limit n, at most n files are fetched and appended over the
\* whole range, and once n files have been appended the load is not about to
\* list another date or fetch another file; for every n, 0 included.
AboutToList == pc = "load_date" /\ dateIdx <= Len(date_list)
AboutToFetch ==
    /\ pc = "load_obj"
    /\ objIdx <= Len(response)
    /\ EndsWithCsvGz(response[objIdx].key)
C2_LimitBoundsFiles ==
    (LoadStarted /\ limit # None)
    => /\ Len(all_data) <= limit[1]
       /\ Len(all_data) >= limit[1] => ~AboutToList /\ ~AboutToFetch

IsPartitionPrefix(p, dt) ==
    /\ Len(p) = 5
    /\ p[1] = <<"csv-data">>
    /\ SubSeq(p[2], 1, 2) = <<"year", "=">>
    /\ IntOfDigits(SubSeq(p[2], 3, Len(p[2]))) = dt.year
    /\ SubSeq(p[3], 1, 2) = <<"month", "=">>
    /\ Len(p[3]) = 4
    /\ IntOfDigits(SubSeq(p[3], 3, 4)) = dt.month
    /\ SubSeq(p[4], 1, 2) = <<"day", "=">>
    /\ Len(p[4]) = 4
    /\ IntOfDigits(SubSeq(p[4], 3, 4)) = dt.day
    /\ p[5] = <<>>

DatesEnumerated ==
    /\ DateLE(start_date, end_date)
       => Len(date_list) = DaysBetween(start_date, end_date) + 1
    /\ \A i \in 1..Len(date_list) :
          /\ ValidDate(date_list[i].year, date_list[i].month, date_list[i].day)
          /\ Ordinal(date_list[i]) = Ordinal(start_date) + i - 1

ListingsFollowDates ==
    /\ Len(listed) <= Len(date_list)
    /\ \A i \in 1..Len(listed) : IsPartitionPrefix(listed[i], date_list[i])

C4_ConcatIsSchemaUnion ==
    (pc = "done_load" /\ raised = "no" /\ all_data # <<>>)
    => /\ {result.cols[j] : j \in 1..Len(result.cols)}
            = UNION {{all_data[f].cols[c] : c \in 1..Len(all_data[f].cols)}
                        : f \in 1..Len(all_data)}
       /\ \A j, k \in 1..Len(result.cols) : result.cols[j] = result.cols[k] => j = k
       /\ Len(result.rows) = RowsBefore(all_data, Len(all_data) + 1)
       /\ \A f \in 1..Len(all_data) : \A r \in 1..Len(all_data[f].rows) :
             LET row == result.rows[RowsBefore(all_data, f) + r]
             IN /\ Len(row) = Len(result.cols)
                /\ \A j \in 1..Len(result.cols) :
                      IF Contains(all_data[f].cols, result.cols[j])
                      THEN row[j] = all_data[f].rows[r][ColIndex(all_data[f].cols, result.cols[j])]
                      ELSE row[j] = None
       /\ Len(fetched) = Len(all_data)
       /\ \A f \in 1..Len(fetched) :
             /\ store[PositionInStore(fetched[f])].body = Some(all_data[f])
             /\ \A g \in 1..Len(fetched) :
                   f < g => PositionInStore(fetched[f]) < PositionInStore(fetched[g])

C4_Witness ==
    /\ pc = "done_load"
    /\ raised = "no"
    /\ Len(all_data) >= 2
    /\ Len(result.cols) = 3
    /\ \E r \in 1..Len(result.rows) : result.rows[r][1] = None
    /\ \E r \in 1..Len(result.rows) : result.rows[r][3] = None

(***************************************************************************)
(* Properties of get_available_date_range.                                 *)
(***************************************************************************)
\* a key of the form <base>/year=<Y>/month=<M>/day=<D>[/...] naming a date
IsNamedPart(part, name) ==
    /\ Len(part) >= 3
    /\ part[1] = name
    /\ part[2] = "="
    /\ \A i \in 3..Len(part) : IsDigit(part[i])
MatchesPartitionPattern(key) ==
    /\ Len(key) >= 4
    /\ key[1] = base_path
    /\ IsNamedPart(key[2], "year")
    /\ IsNamedPart(key[3], "month")
    /\ IsNamedPart(key[4], "day")
    /\ ValidDate(IntOfDigits(SubSeq(key[2], 3, Len(key[2]))),
                 IntOfDigits(SubSeq(key[3], 3, Len(key[3]))),
                 IntOfDigits(SubSeq(key[4], 3, Len(key[4]))))
PatternDate(key) ==
    Date(IntOfDigits(SubSeq(key[2], 3, Len(key[2]))),
         IntOfDigits(SubSeq(key[3], 3, Len(key[3]))),
         IntOfDigits(SubSeq(key[4], 3, Len(key[4]))))
MatchingDates(keys) ==
    {PatternDate(keys[i]) : i \in {j \in 1..Len(keys) : MatchesPartitionPattern(keys[j])}}

\* C5: every key that does not match <base>/year=<Y>/month=<M>/day=<D>/... is
\* ignored: the returned range is the minimum and maximum date over the keys
\* that match (start <= end), and the no-data value when the listing is empty
\* or no key matches.
C5_OnlyMatchingKeysCount ==
    (pc = "done_dates" /\ ~catInput[1].raises)
    => LET dates == IF catInput[1].Contents = None THEN {}
                    ELSE MatchingDates(catInput[1].Contents[1])
       IN IF dates = {}
          THEN catResult[1] = <<None, None>>
          ELSE /\ catResult[1][1] # None
               /\ catResult[1][2] # None
               /\ catResult[1][1][1] \in dates
               /\ catResult[1][2][1] \in dates
               /\ \A d \in dates : DateLE(catResult[1][1][1], d) /\ DateLE(d, catResult[1][2][1])

\* C6: a storage failure during the listing gives an outcome the caller can
\* tell from the no-data outcome: neither the returned pair nor the reply of
\* the route is the one an empty listing gives.
C6_FailureDistinctFromNoData ==
    (pc = "done_dates" /\ catInput[1].raises)
    => /\ catResult[1] # GetAvailableDateRange(Listing(FALSE, None))
       /\ http[1] # AvailableDatesReply(GetAvailableDateRange(Listing(FALSE, None)))

(***************************************************************************)
(* Properties of execute_query.                                            *)
(***************************************************************************)
IsSelectChunk(c) == c \in {"SELECT", "select"}
IsWhereChunk(c) == c \in {"Where", "where"}

BeginsWithSelect(text) == Strip(text) # <<>> /\ IsSelectChunk(Strip(text)[1])
HasWhere(text) == \E i \in 1..Len(text) : IsWhereChunk(text[i])
FirstWhere(text) ==
    CHOOSE i \in 1..Len(text) :
        IsWhereChunk(text[i]) /\ \A j \in 1..(i - 1) : ~IsWhereChunk(text[j])

\* C7: a statement whose trimmed text does not begin with SELECT (in any
\* letter case) is answered with the NotASelect error and no rows, and no
\* projection or filter is evaluated on the table.
C7_NonSelectRejected ==
    (pc = "done_query" /\ ~BeginsWithSelect(query))
    => /\ error = NotASelect
       /\ result = EmptyFrame
       /\ evaluated = <<>>

C7_Witness ==
    /\ pc = "done_query"
    /\ Len(query) >= 3
    /\ query[1] = " "
    /\ query[2] = "DROP TABLE x"
    /\ Contains(query, "SELECT")
    /\ error = NotASelect

\* C8: a statement "SELECT * FROM <anything>" without WHERE parses to the
\* wildcard with no filter, and executing it returns all columns of the table
\* and no error.
HasShapeSelectStarFrom(text) ==
    LET t == Strip(text)
    IN /\ Len(t) >= 4
       /\ IsSelectChunk(t[1])
       /\ t[2] = " "
       /\ t[3] = "*"
       /\ t[4] = " FROM t"
       /\ ~HasWhere(t)
C8_SelectStarFromIsWildcard ==
    (pc = "done_query" /\ HasShapeSelectStarFrom(query))
    => /\ error = NoError
       /\ result = df
       /\ parsed # None
       /\ parsed[1].columns_str = <<"*">>
       /\ parsed[1].where_part = None

\* C9: a statement containing WHERE is split at its first occurrence only:
\* the column-list clause is the text before it, the filter clause the whole
\* text after it, further occurrences of "where" included.
C9_SplitAtFirstWhereOnly ==
    (pc = "done_query" /\ BeginsWithSelect(query) /\ HasWhere(query))
    => LET t == Lower(Strip(query))
           k == FirstWhere(t)
       IN /\ parsed # None
          /\ parsed[1].select_part = SubSeq(t, 1, k - 1)
          /\ parsed[1].where_part = Some(SubSeq(t, k + 1, Len(t)))

\* C10: with a column list that is not the wildcard, obtained by removing only
\* the leading SELECT, the table is projected to exactly the listed names in
\* the listed order (duplicates kept) when every listed name is a column of
\* the table, and the call fails naming an absent column when one is absent.
ListedClause(text) ==
    LET t == Strip(text)
        upto == IF HasWhere(t) THEN FirstWhere(t) - 1 ELSE Len(t)
    IN Strip(SubSeq(t, 2, upto))
ListedNames(text) ==
    LET pieces == Split(ListedClause(text), ",")
    IN [i \in 1..Len(pieces) |-> Strip(pieces[i])]
C10_ProjectsListedColumns ==
    (pc = "done_query" /\ BeginsWithSelect(query) /\ ListedClause(query) # <<"*">>)
    => LET names == ListedNames(query)
       IN IF \A i \in 1..Len(names) : Contains(df.cols, names[i])
          THEN /\ ~HasWhere(query) => error = NoError
               /\ error = NoError => result.cols = names
               /\ (error = NoError /\ ~HasWhere(query))
                  => /\ Len(result.rows) = Len(df.rows)
                     /\ \A r \in 1..Len(df.rows) : \A j \in 1..Len(names) :
                           result.rows[r][j] = df.rows[r][ColIndex(df.cols, names[j])]
          ELSE /\ error # NoError
               /\ result = EmptyFrame
               /\ \E i \in 1..Len(names) :
                     /\ ~Contains(df.cols, names[i])
                     /\ Contains(error[1].names, names[i])

\* C11: when a filter is present it is evaluated on every row of the already
\* projected table and the result is exactly the rows for which it is true, in
\* the order of the input table; a filter column absent from the projected
\* table is an error naming that column.
FilterClause(text) ==
    LET t == Strip(text)
    IN Strip(SubSeq(t, FirstWhere(t) + 1, Len(t)))
ProjectionIsValid(t, text) ==
    \/ ListedClause(text) = <<"*">>
    \/ \A i \in 1..Len(ListedNames(text)) : Contains(t.cols, ListedNames(text)[i])
ProjectedTable(t, text) ==
    IF ListedClause(text) = <<"*">> THEN t ELSE Project(t, ListedNames(text))
C11_FilterKeepsTrueRows ==
    ( /\ pc = "done_query"
      /\ BeginsWithSelect(query)
      /\ HasWhere(query)
      /\ Len(FilterClause(query)) = 1
      /\ Comparison(FilterClause(query)[1]) # None
      /\ ProjectionIsValid(df, query) )
    => LET cmp == Comparison(FilterClause(query)[1])[1]
           projected == ProjectedTable(df, query)
       IN IF Contains(projected.cols, cmp.column)
          THEN /\ error = NoError
               /\ result.cols = projected.cols
               /\ result.rows = RowsAbove(projected, cmp.column, cmp.bound)
          ELSE /\ error # NoError
               /\ Contains(error[1].names, cmp.column)

\* C12: the call never changes its input table, whatever the statement and
\* whether or not it ends in an error; a wildcard statement without filter
\* returns a separate table (a copy) equal to the input in row and column order.
IsWildcardNoFilter(text) ==
    BeginsWithSelect(text) /\ ~HasWhere(text) /\ ListedClause(text) = <<"*">>
FirstNonNullRow(t, j) ==
    CHOOSE r \in 1..Len(t.rows) :
        t.rows[r][j] # None /\ \A q \in 1..(r - 1) : t.rows[q][j] = None

\* C13: for a table that is not empty the description gives, column by column
\* in column order, the first value of the column that is not null as its
\* example, and the null marker only when the whole column is null; for an
\* empty table it is the "no data available" sentinel, not an empty list.
C13_ExampleIsFirstNonNull ==
    pc = "done_schema"
    => IF IsEmpty(df)
       THEN /\ schema[1].sentinel = "No data available to generate schema."
            /\ schema[1].lines = <<>>
       ELSE /\ schema[1].sentinel = ""
            /\ Len(schema[1].lines) = Len(df.cols)
            /\ \A j \in 1..Len(df.cols) :
                  /\ schema[1].lines[j].column = df.cols[j]
                  /\ IF AllNull(df, j)
                     THEN schema[1].lines[j].sample = NullMarker
                     ELSE schema[1].lines[j].sample
                             = Example(df.rows[FirstNonNullRow(df, j)][j])

(***************************************************************************)
(* Properties of the routes.                                               *)
(***************************************************************************)
Count(seq, x) == Cardinality({i \in 1..Len(seq) : seq[i] = x})
Called(x) == Count(calls, x) > 0
FirstCall(x) == CHOOSE i \in 1..Len(calls) : calls[i] = x /\ \A j \in 1..(i - 1) : calls[j] # x
QueryTracked == request # None /\ request[1].route = "query"
ExecError == executed # None /\ executed[1].error # NoError

\* C14: within one /query request the query text is generated at most once
\* and executed at most once; the explanation call is made only after an
\* execution without error, an execution only after a load that returned a
\* table with rows; an execution error ends the request with status 400
\* carrying that error, and no explanation call is made.
C14_NoRetryAfterExecError ==
    QueryTracked
    => /\ Count(calls, "generate_sql") <= 1
       /\ Count(calls, "execute_query") <= 1
       /\ Count(calls, "explain_results") <= 1
       /\ Called("explain_results")
          => /\ Called("execute_query")
             /\ FirstCall("execute_query") < FirstCall("explain_results")
             /\ executed # None /\ executed[1].error = NoError
       /\ Called("execute_query")
          => /\ Called("generate_sql")
             /\ FirstCall("get_data_for_date_range") < FirstCall("generate_sql")
             /\ FirstCall("generate_sql") < FirstCall("execute_query")
             /\ ~IsEmpty(route_df)
       /\ ExecError
          => /\ pc = "serving"
             /\ reply = Some(Reply(400, executed[1].error, None))
             /\ ~Called("explain_results")
             /\ calls[Len(calls)] = "execute_query"

C14_Witness ==
    /\ pc = "serving"
    /\ QueryTracked
    /\ ExecError
    /\ sql_query = Some(<<"SELECT", " ", "B">>)
    /\ reply # None /\ reply[1].status = 400
    /\ Called("generate_sql")

\* the reply of GET /available-dates under configuration cfg
AvailableDatesOutcome(cfg, raises) ==
    IF NoBucket(cfg.bucket_name) THEN NotConfigured
    ELSE LET st == RouteStorage(cfg.bucket_name[1])
             keys == [i \in 1..Len(st) |-> st[i].key]
             ret == AvailableDatesReply(GetAvailableDateRange(
                        Listing(raises, IF keys = <<>> THEN None ELSE Some(keys))))
         IN IF ret.status = 200
            THEN Reply(200, NoError, Some(<<ret.start_date, ret.end_date>>))
            ELSE RouteError(ret.status, ret.error)

\* the reply of POST /query with body r under configuration cfg, given what
\* the storage service and the provider do
QueryOutcome(r, cfg, fails, out, raises) ==
    LET early == Validate(r, cfg, mainCONFIG)
    IN IF early # None THEN early[1]
       ELSE LET w == Window(r)
                table == GetDataForDateRange(RouteStorage(cfg.bucket_name[1]),
                                             w[1], w[2], fails)
                ran == ExecuteQuery(table, out[1])
            IN IF IsEmpty(table)
               THEN RouteError(404, "No data available for the specified date range")
               ELSE IF LowerName(ProviderName(r, cfg)) \notin SupportedProviders
               THEN Reply(400, Failure("Unsupported provider:",
                                       << <<ProviderName(r, cfg)>> >>), None)
               ELSE IF out = None THEN InternalError
               ELSE IF ran.error # NoError THEN Reply(400, ran.error, None)
               ELSE IF raises THEN InternalError
               ELSE Reply(200, NoError, Some([sql_query |-> out[1], results |-> ran.result]))

\* every reply the request can get under configuration cfg
Outcomes(r, cfg) ==
    IF r.route = "available-dates"
    THEN {AvailableDatesOutcome(cfg, raises) : raises \in BOOLEAN}
    ELSE {QueryOutcome(r, cfg, fails, out, raises) :
             fails \in BOOLEAN, out \in GenerateOutcomes, raises \in BOOLEAN}

Answered == pc = "serving" /\ request # None /\ reply # None

StorageCalls == {"get_available_date_range", "get_data_for_date_range"}

\* C16: as long as no POST /config has supplied bucket_name, whatever the
\* secrets loaded into main.py's CONFIG, every /available-dates request and
\* every /query request with a question is answered 400 'S3 bucket not
\* configured' and makes no storage call.
C16_SecretsDoNotConfigureRoutes ==
    ~bucketPosted
    => /\ pc \notin {"q_load", "q_generate", "q_execute", "q_explain"}
       /\ (pc = "serving" /\ request # None
           /\ (request[1].route = "available-dates" \/ request[1].question))
          => /\ reply = Some(NotConfigured)
             /\ \A i \in 1..Len(calls) : calls[i] \notin StorageCalls

C16_Witness ==
    /\ ~bucketPosted
    /\ mainCONFIG.bucket_name = Some("data")
    /\ pc = "serving"
    /\ request # None /\ request[1].route = "query" /\ request[1].question
    /\ reply = Some(NotConfigured)
    /\ config_reply # None

====
